---- MODULE Spec2Model ----
(***************************************************************************)
(* A priority queue kept in an ordered key-value store (src/main.rs).      *)
(* The store maps the 8-byte big-endian priority to a packed byte record   *)
(*   [count: 4 bytes][len_1: 4 bytes][element_1] ... [len_n][element_n]    *)
(* The u32 type of the program is modelled U32Bits wide: every u32         *)
(* operation is taken modulo 2^U32Bits, a debug build panics where a       *)
(* release build wraps.                                                    *)
(***************************************************************************)
EXTENDS Integers, Sequences, FiniteSets, TLC

VARIABLES
    queues,   \* queues[q]: the key-value store owned by queue q
    build,    \* "debug" or "release": how the u32 arithmetic overflows
    last,     \* the last call: method, queue, arguments, status and result
    abs,      \* history: abs[q][p] = payloads inserted at priority p and not
              \* yet popped, oldest first, as the interface describes them
    inserts,  \* history: inserts[q] = insert calls that returned
    pops      \* history: pops[q] = pop calls that returned an element

vars == <<queues, build, last, abs, inserts, pops>>

(***************************************************************************)
(* Bounds of the model                                                     *)
(***************************************************************************)
\* width in bits of the modelled u32 (32 in the program)
U32Bits == 2
\* insert calls made on the two queues together under Spec
MaxInserts == 3

Queues == {1, 2}
Builds == {"debug", "release"}

Priorities == {3, 255, 256}
Payloads == {<<>>, <<6, 7>>}

\* SpecW: one queue driven up to and past the capacity of the u32 fields
PrioritiesW == {255, 256}
LongPayload == [i \in 1..(2^U32Bits) |-> 0]
PayloadsW == {<<5>>, LongPayload}
MaxInsertsW == 2^U32Bits + 1

\* SpecK: one queue, priorities that differ in one byte or in several
PrioritiesK == {0, 1, 255, 256, 257, 65535, 65536, 16777216}
PayloadsK == {<<6, 7>>}

AllPriorities == Priorities \cup PrioritiesW \cup PrioritiesK

(***************************************************************************)
(* Program constants and integer types                                     *)
(***************************************************************************)
KEY_SIZE_BYTES == 4
ELEMENT_SIZE_BYTES == 4
PRIORITY_BYTES == 8

u32_max_value == 2^U32Bits - 1

\* `x as u32`: the cast truncates
as_u32(x) == x % (u32_max_value + 1)

\* u32 `a + b`: "attempt to add with overflow" in a debug build, wraps in release
u32_add(a, b, bld) ==
    IF a + b > u32_max_value
    THEN IF bld = "debug" THEN [ok |-> FALSE, val |-> 0]
                          ELSE [ok |-> TRUE, val |-> (a + b) % (u32_max_value + 1)]
    ELSE [ok |-> TRUE, val |-> a + b]

\* u32 `a - b`: "attempt to subtract with overflow" in a debug build, wraps in release
u32_sub(a, b, bld) ==
    IF a < b
    THEN IF bld = "debug" THEN [ok |-> FALSE, val |-> 0]
                          ELSE [ok |-> TRUE, val |-> (a - b + u32_max_value + 1) % (u32_max_value + 1)]
    ELSE [ok |-> TRUE, val |-> a - b]

\* n.to_le_bytes(): least significant byte first
RECURSIVE to_le_bytes(_, _)
to_le_bytes(n, k) ==
    IF k = 0 THEN <<>> ELSE <<n % 256>> \o to_le_bytes(n \div 256, k - 1)

\* n.to_be_bytes() on a k-byte integer: most significant byte first
RECURSIVE to_be_bytes(_, _)
to_be_bytes(n, k) ==
    IF k = 0 THEN <<>> ELSE Append(to_be_bytes(n \div 256, k - 1), n % 256)

\* a transform that read the four bytes least significant first
as_u32_le(array) ==
    as_u32(array[4] * 16777216 + array[3] * 65536 + array[2] * 256 + array[1])

\* transform byte array: &[u8; 4] to u32
as_u32_be(array) ==
    as_u32(array[1] * 16777216 + array[2] * 65536 + array[3] * 256 + array[4])

\* slice.split_at(mid): panics when mid > len
split_at(slice, mid) ==
    IF mid > Len(slice)
    THEN [ok |-> FALSE, left |-> <<>>, right |-> <<>>]
    ELSE [ok |-> TRUE, left |-> SubSeq(slice, 1, mid),
          right |-> SubSeq(slice, mid + 1, Len(slice))]

\* returns next (element_size, element, next_slice)
next_element(slice) ==
    LET s1 == split_at(slice, ELEMENT_SIZE_BYTES) IN
    IF ~s1.ok
    THEN [ok |-> FALSE, element_size |-> <<>>, element |-> <<>>, next_slice |-> <<>>]
    ELSE LET element_usize == as_u32_be(s1.left)
             s2 == split_at(s1.right, element_usize) IN
         IF ~s2.ok
         THEN [ok |-> FALSE, element_size |-> <<>>, element |-> <<>>, next_slice |-> <<>>]
         ELSE [ok |-> TRUE, element_size |-> s1.left, element |-> s2.left,
               next_slice |-> s2.right]

(***************************************************************************)
(* The ordered key-value store: BTreeMap<Vec<u8>, Vec<u8>>                 *)
(***************************************************************************)
\* Ord of Vec<u8>: lexicographic, a proper prefix is smaller
LexLess(a, b) ==
    \E i \in 1..(Len(a) + 1) :
        /\ i <= Len(b) + 1
        /\ \A j \in 1..(i - 1) : a[j] = b[j]
        /\ \/ i = Len(a) + 1 /\ i <= Len(b)
           \/ i <= Len(a) /\ i <= Len(b) /\ a[i] < b[i]

kv_new == [k \in {} |-> <<>>]
kv_is_empty(kv_store) == DOMAIN kv_store = {}
kv_contains_key(kv_store, key) == key \in DOMAIN kv_store
\* a store whose insert dropped every other key
kv_insert_alone(kv_store, key, val) == [k \in {key} |-> val]
kv_insert(kv_store, key, val) ==
    [k \in (DOMAIN kv_store) \cup {key} |-> IF k = key THEN val ELSE kv_store[k]]
\* a store whose remove left the key in place
kv_remove_nothing(kv_store, key) == kv_store
kv_remove(kv_store, key) ==
    [k \in (DOMAIN kv_store) \ {key} |-> kv_store[k]]
\* kv_store.iter().next(): the entry with the smallest key
kv_next_first(kv_store) ==
    CHOOSE k \in DOMAIN kv_store :
        \A j \in DOMAIN kv_store : j = k \/ LexLess(k, j)

\* kv_store.iter().next_back(): the entry with the greatest key
kv_next_back(kv_store) ==
    CHOOSE k \in DOMAIN kv_store :
        \A j \in DOMAIN kv_store : j = k \/ LexLess(j, k)

(***************************************************************************)
(* Option<Vec<u8>>                                                         *)
(***************************************************************************)
None == <<"None">>
Some(e) == <<"Some", e>>
Unit == <<"unit">>

(***************************************************************************)
(* impl PriorityQueue<Vec<u8>> for PriorityQueueImpl                       *)
(* Every method returns [status, result, store]: status is "ok" or         *)
(* "panic", store is the store the call leaves behind.                     *)
(***************************************************************************)
Outcome(status, result, kv_store) ==
    [status |-> status, result |-> result, store |-> kv_store]

new == kv_new

is_empty(kv_store) == Outcome("ok", kv_is_empty(kv_store), kv_store)

\* iterate over everything and add size for every key
RECURSIVE size_loop(_, _, _)
size_loop(kv_store, keys, size) ==
    IF keys = {} THEN [ok |-> TRUE, val |-> size]
    ELSE LET k == CHOOSE x \in keys : TRUE
             s == split_at(kv_store[k], 4) IN
         IF ~s.ok THEN [ok |-> FALSE, val |-> 0]
         ELSE size_loop(kv_store, keys \ {k}, size + as_u32_be(s.left))

\* a size() that counted the keys instead of summing their counts
size_counts_keys(kv_store) == Outcome("ok", Cardinality(DOMAIN kv_store), kv_store)

size(kv_store) ==
    LET r == size_loop(kv_store, DOMAIN kv_store, 0) IN
    IF r.ok THEN Outcome("ok", r.val, kv_store) ELSE Outcome("panic", 0, kv_store)

\* an insert() that skipped a priority already present
insert_skips_present(kv_store, element, priority, bld) ==
    IF Len(element) > u32_max_value THEN Outcome("panic", Unit, kv_store)
    ELSE LET key == to_be_bytes(priority, PRIORITY_BYTES)
             element_size == to_be_bytes(as_u32(Len(element)), 4) IN
         IF ~kv_contains_key(kv_store, key)
         THEN Outcome("ok", Unit,
                      kv_insert(kv_store, key, <<0, 0, 0, 1>> \o element_size \o element))
         ELSE Outcome("ok", Unit, kv_store)

\* an insert() without the check of the element's length
insert_unchecked(kv_store, element, priority, bld) ==
    LET key == to_be_bytes(priority, PRIORITY_BYTES)
        element_size == to_be_bytes(as_u32(Len(element)), 4) IN
    IF ~kv_contains_key(kv_store, key)
    THEN Outcome("ok", Unit,
                 kv_insert(kv_store, key, <<0, 0, 0, 1>> \o element_size \o element))
    ELSE LET s == split_at(kv_store[key], KEY_SIZE_BYTES)
             sum == u32_add(as_u32_be(s.left), 1, bld) IN
         IF ~s.ok \/ ~sum.ok THEN Outcome("panic", Unit, kv_store)
         ELSE Outcome("ok", Unit,
                      kv_insert(kv_store, key,
                                to_be_bytes(sum.val, 4) \o s.right
                                    \o element_size \o element))

\* an insert() that put the new element in front of the stored ones
insert_prepends(kv_store, element, priority, bld) ==
    IF Len(element) > u32_max_value THEN Outcome("panic", Unit, kv_store)
    ELSE LET key == to_be_bytes(priority, PRIORITY_BYTES)
             element_size == to_be_bytes(as_u32(Len(element)), 4) IN
         IF ~kv_contains_key(kv_store, key)
         THEN Outcome("ok", Unit,
                      kv_insert(kv_store, key, <<0, 0, 0, 1>> \o element_size \o element))
         ELSE LET s == split_at(kv_store[key], KEY_SIZE_BYTES)
                  sum == u32_add(as_u32_be(s.left), 1, bld) IN
              IF ~s.ok \/ ~sum.ok THEN Outcome("panic", Unit, kv_store)
              ELSE Outcome("ok", Unit,
                           kv_insert(kv_store, key,
                                     to_be_bytes(sum.val, 4) \o element_size
                                         \o element \o s.right))

\* an insert() that started the count of a fresh key at 0
insert_counts_from_zero(kv_store, element, priority, bld) ==
    IF Len(element) > u32_max_value THEN Outcome("panic", Unit, kv_store)
    ELSE LET key == to_be_bytes(priority, PRIORITY_BYTES)
             element_size == to_be_bytes(as_u32(Len(element)), 4) IN
         IF ~kv_contains_key(kv_store, key)
         THEN Outcome("ok", Unit,
                      kv_insert(kv_store, key, <<0, 0, 0, 0>> \o element_size \o element))
         ELSE LET s == split_at(kv_store[key], KEY_SIZE_BYTES)
                  sum == u32_add(as_u32_be(s.left), 1, bld) IN
              IF ~s.ok \/ ~sum.ok THEN Outcome("panic", Unit, kv_store)
              ELSE Outcome("ok", Unit,
                           kv_insert(kv_store, key,
                                     to_be_bytes(sum.val, 4) \o s.right
                                         \o element_size \o element))

\* an insert() that appended to a present key without counting the element
insert_keeps_count(kv_store, element, priority, bld) ==
    IF Len(element) > u32_max_value THEN Outcome("panic", Unit, kv_store)
    ELSE LET key == to_be_bytes(priority, PRIORITY_BYTES)
             element_size == to_be_bytes(as_u32(Len(element)), 4) IN
         IF ~kv_contains_key(kv_store, key)
         THEN Outcome("ok", Unit,
                      kv_insert(kv_store, key, <<0, 0, 0, 1>> \o element_size \o element))
         ELSE Outcome("ok", Unit,
                      kv_insert(kv_store, key, kv_store[key] \o element_size \o element))

insert(kv_store, element, priority, bld) ==
    IF Len(element) > u32_max_value THEN Outcome("panic", Unit, kv_store)
    ELSE
    LET key == to_be_bytes(priority, PRIORITY_BYTES)
        element_size == to_be_bytes(as_u32(Len(element)), 4)
    IN  IF ~kv_contains_key(kv_store, key)
        THEN LET key_size == <<0, 0, 0, 1>> IN
             Outcome("ok", Unit,
                     kv_insert(kv_store, key, key_size \o element_size \o element))
        ELSE LET old_value == kv_store[key]
                 s == split_at(old_value, KEY_SIZE_BYTES) IN
             IF ~s.ok THEN Outcome("panic", Unit, kv_store)
             ELSE LET sum == u32_add(as_u32_be(s.left), 1, bld) IN
                  IF ~sum.ok THEN Outcome("panic", Unit, kv_store)
                  ELSE LET key_size == to_be_bytes(sum.val, 4) IN
                       Outcome("ok", Unit,
                               kv_insert(kv_store, key,
                                         key_size \o s.right \o element_size \o element))

\* a scan that did not carry the elements it passed into new_val
RECURSIVE pop_loop_drops(_, _, _, _)
pop_loop_drops(elements_slice, n, new_val, bld) ==
    LET ne == next_element(elements_slice) IN
    IF ~ne.ok THEN [ok |-> FALSE, element |-> <<>>, new_val |-> <<>>]
    ELSE LET n1 == u32_sub(n, 1, bld) IN
         IF ~n1.ok THEN [ok |-> FALSE, element |-> <<>>, new_val |-> <<>>]
         ELSE IF n1.val = 0
              THEN [ok |-> TRUE, element |-> ne.element, new_val |-> new_val]
              ELSE pop_loop_drops(ne.next_slice, n1.val, new_val, bld)

\* a scan that took the first element of the list and kept the others
pop_loop_first(elements_slice, n, new_val, bld) ==
    LET ne == next_element(elements_slice) IN
    IF ~ne.ok THEN [ok |-> FALSE, element |-> <<>>, new_val |-> <<>>]
    ELSE [ok |-> TRUE, element |-> ne.element, new_val |-> new_val \o ne.next_slice]

\* loop n steps and return the last element, collecting the others in new_val
RECURSIVE pop_loop(_, _, _, _)
pop_loop(elements_slice, n, new_val, bld) ==
    LET ne == next_element(elements_slice) IN
    IF ~ne.ok THEN [ok |-> FALSE, element |-> <<>>, new_val |-> <<>>]
    ELSE LET n1 == u32_sub(n, 1, bld) IN
         IF ~n1.ok THEN [ok |-> FALSE, element |-> <<>>, new_val |-> <<>>]
         ELSE IF n1.val = 0
              THEN [ok |-> TRUE, element |-> ne.element, new_val |-> new_val]
              ELSE pop_loop(ne.next_slice, n1.val,
                            new_val \o ne.element_size \o ne.element, bld)

\* a pop() that wrote the shortened list back also when it had become empty
pop_keeps_key(kv_store, bld) ==
    IF is_empty(kv_store).result THEN Outcome("ok", None, kv_store)
    ELSE LET key == kv_next_back(kv_store)
             s == split_at(kv_store[key], KEY_SIZE_BYTES)
             dec == u32_sub(as_u32_be(s.left), 1, bld)
             r == pop_loop(s.right, as_u32_be(s.left), to_be_bytes(dec.val, 4), bld) IN
         IF ~s.ok \/ ~dec.ok \/ ~r.ok THEN Outcome("panic", None, kv_store)
         ELSE Outcome("ok", Some(r.element), kv_insert(kv_store, key, r.new_val))

\* a pop() that wrote the shortened list back under the old count
pop_keeps_count(kv_store, bld) ==
    IF is_empty(kv_store).result THEN Outcome("ok", None, kv_store)
    ELSE LET key == kv_next_back(kv_store)
             s == split_at(kv_store[key], KEY_SIZE_BYTES)
             size_ == as_u32_be(s.left)
             r == pop_loop(s.right, size_, to_be_bytes(size_, 4), bld) IN
         IF ~s.ok \/ ~r.ok THEN Outcome("panic", None, kv_store)
         ELSE IF size_ = 1
              THEN Outcome("ok", Some(r.element), kv_remove(kv_store, key))
              ELSE Outcome("ok", Some(r.element), kv_insert(kv_store, key, r.new_val))

\* remove key if size == 1, else remove last element and update key
pop(kv_store, bld) ==
    IF is_empty(kv_store).result THEN Outcome("ok", None, kv_store)
    ELSE LET key == kv_next_back(kv_store)
             value == kv_store[key]
             s == split_at(value, KEY_SIZE_BYTES) IN
         IF ~s.ok THEN Outcome("panic", None, kv_store)
         ELSE LET size_ == as_u32_be(s.left)
                  dec == u32_sub(size_, 1, bld) IN
              IF ~dec.ok THEN Outcome("panic", None, kv_store)
              ELSE LET r == pop_loop(s.right, size_, to_be_bytes(dec.val, 4), bld) IN
                   IF ~r.ok THEN Outcome("panic", None, kv_store)
                   ELSE IF size_ = 1
                        THEN Outcome("ok", Some(r.element), kv_remove(kv_store, key))
                        ELSE Outcome("ok", Some(r.element),
                                     kv_insert(kv_store, key, r.new_val))

\* loop n steps and return the last element
\* a scan that stopped at the first element of the list
peek_loop_first(elements_slice, n, bld) ==
    LET ne == next_element(elements_slice) IN
    IF ~ne.ok THEN [ok |-> FALSE, element |-> <<>>]
    ELSE [ok |-> TRUE, element |-> ne.element]

RECURSIVE peek_loop(_, _, _)
peek_loop(elements_slice, n, bld) ==
    LET ne == next_element(elements_slice) IN
    IF ~ne.ok THEN [ok |-> FALSE, element |-> <<>>]
    ELSE LET n1 == u32_sub(n, 1, bld) IN
         IF ~n1.ok THEN [ok |-> FALSE, element |-> <<>>]
         ELSE IF n1.val = 0 THEN [ok |-> TRUE, element |-> ne.element]
         ELSE peek_loop(ne.next_slice, n1.val, bld)

\* a peek() that removed what it returned
peek_removes(kv_store, bld) == pop(kv_store, bld)

peek(kv_store, bld) ==
    IF is_empty(kv_store).result THEN Outcome("ok", None, kv_store)
    ELSE LET value == kv_store[kv_next_back(kv_store)]
             s == split_at(value, KEY_SIZE_BYTES) IN
         IF ~s.ok THEN Outcome("panic", None, kv_store)
         ELSE LET r == peek_loop(s.right, as_u32_be(s.left), bld) IN
              IF r.ok THEN Outcome("ok", Some(r.element), kv_store)
              ELSE Outcome("panic", None, kv_store)

(***************************************************************************)
(* The interface's view of a queue, kept as history                        *)
(***************************************************************************)
AbsPresent(a) == {p \in DOMAIN a : a[p] # <<>>}
AbsMax(a) == CHOOSE p \in AbsPresent(a) : \A r \in AbsPresent(a) : r <= p
AbsInsert(a, element, priority) ==
    [a EXCEPT ![priority] = Append(a[priority], element)]
AbsPop(a) ==
    IF AbsPresent(a) = {} THEN a
    ELSE [a EXCEPT ![AbsMax(a)] = SubSeq(a[AbsMax(a)], 1, Len(a[AbsMax(a)]) - 1)]

(***************************************************************************)
(* The state machine: two queues, each owning its store                    *)
(***************************************************************************)
\* one store shared by every queue
write_shared(qs, q, kv_store) == [x \in DOMAIN qs |-> kv_store]

\* struct PriorityQueueImpl(KeyValueStore): the store a method writes is self's
write_self(qs, q, kv_store) == [qs EXCEPT ![q] = kv_store]

Call(op, q, element, priority, key, out) ==
    [op |-> op, q |-> q, element |-> element, priority |-> priority,
     key |-> key, status |-> out.status, result |-> out.result]

Init ==
    /\ queues = [q \in Queues |-> new]
    /\ build \in Builds
    /\ last = Call("new", 1, <<>>, 0, <<>>, Outcome("ok", Unit, new))
    /\ abs = [q \in Queues |-> [p \in AllPriorities |-> <<>>]]
    /\ inserts = [q \in Queues |-> 0]
    /\ pops = [q \in Queues |-> 0]

Insert(q, element, priority) ==
    \E out \in {insert(queues[q], element, priority, build)} :
    /\ queues' = write_self(queues, q, out.store)
    /\ last' = Call("insert", q, element, priority, <<>>, out)
    /\ abs' = IF out.status = "ok"
              THEN [abs EXCEPT ![q] = AbsInsert(abs[q], element, priority)]
              ELSE abs
    /\ inserts' = IF out.status = "ok"
                  THEN [inserts EXCEPT ![q] = inserts[q] + 1]
                  ELSE inserts
    /\ UNCHANGED <<build, pops>>

Pop(q) ==
    \E out \in {pop(queues[q], build)},
       key \in {IF kv_is_empty(queues[q]) THEN <<>> ELSE kv_next_back(queues[q])} :
    /\ queues' = write_self(queues, q, out.store)
    /\ last' = Call("pop", q, <<>>, 0, key, out)
    /\ abs' = IF out.status = "ok"
              THEN [abs EXCEPT ![q] = AbsPop(abs[q])]
              ELSE abs
    /\ pops' = IF out.status = "ok" /\ out.result # None
               THEN [pops EXCEPT ![q] = pops[q] + 1]
               ELSE pops
    /\ UNCHANGED <<build, inserts>>

Peek(q) ==
    \E out \in {peek(queues[q], build)} :
    /\ queues' = write_self(queues, q, out.store)
    /\ last' = Call("peek", q, <<>>, 0, <<>>, out)
    /\ UNCHANGED <<build, abs, inserts, pops>>

Size(q) ==
    \E out \in {size(queues[q])} :
    /\ queues' = write_self(queues, q, out.store)
    /\ last' = Call("size", q, <<>>, 0, <<>>, out)
    /\ UNCHANGED <<build, abs, inserts, pops>>

IsEmpty(q) ==
    \E out \in {is_empty(queues[q])} :
    /\ queues' = write_self(queues, q, out.store)
    /\ last' = Call("is_empty", q, <<>>, 0, <<>>, out)
    /\ UNCHANGED <<build, abs, inserts, pops>>

TotalInserts == inserts[1] + inserts[2]

Next ==
    \E q \in Queues :
        \/ \E element \in Payloads, priority \in Priorities :
               TotalInserts < MaxInserts /\ Insert(q, element, priority)
        \/ Pop(q)
        \/ Peek(q)
        \/ Size(q)
        \/ IsEmpty(q)

\* Two queues and at most MaxInserts inserts: fewer elements under any key
\* than the count field can express (MaxInserts < 2^U32Bits), payloads
\* shorter than u32::max_value().
Spec == Init /\ [][Next]_vars

\* one queue, inserts up to and past the capacity of the u32 fields
NextW ==
    \/ \E element \in PayloadsW, priority \in PrioritiesW :
           inserts[1] < MaxInsertsW /\ Insert(1, element, priority)
    \/ Pop(1)
    \/ Peek(1)
    \/ Size(1)
    \/ IsEmpty(1)

SpecW == Init /\ [][NextW]_vars

\* one queue, priorities spread over the bytes of the key
NextK ==
    \/ \E element \in PayloadsK, priority \in PrioritiesK :
           inserts[1] < MaxInserts /\ Insert(1, element, priority)
    \/ Pop(1)
    \/ Peek(1)
    \/ Size(1)
    \/ IsEmpty(1)

SpecK == Init /\ [][NextK]_vars

(***************************************************************************)
(* Reading the store as the data model describes it                        *)
(***************************************************************************)
\* the unsigned number a big-endian byte sequence denotes
RECURSIVE BeValue(_)
BeValue(bytes) ==
    IF bytes = <<>> THEN 0
    ELSE BeValue(SubSeq(bytes, 1, Len(bytes) - 1)) * 256 + bytes[Len(bytes)]

\* the first `count` (length, bytes) pairs of `bytes`, in order; <<"malformed">>
\* when the bytes run out first
RECURSIVE DecodePairs(_, _)
DecodePairs(bytes, count) ==
    IF count = 0 THEN <<>>
    ELSE IF Len(bytes) < 4 \/ Len(bytes) < 4 + BeValue(SubSeq(bytes, 1, 4))
         THEN <<"malformed">>
         ELSE LET len == BeValue(SubSeq(bytes, 1, 4)) IN
              <<SubSeq(bytes, 5, 4 + len)>>
                  \o DecodePairs(SubSeq(bytes, 5 + len, Len(bytes)), count - 1)

\* decode of the PackedElementList: the elements of a stored value, oldest first
Decode(value) == DecodePairs(SubSeq(value, 5, Len(value)), BeValue(SubSeq(value, 1, 4)))

\* the key holding the numerically greatest priority
MaxKey(kv_store) ==
    CHOOSE k \in DOMAIN kv_store :
        \A j \in DOMAIN kv_store : BeValue(j) <= BeValue(k)

\* the sum over all keys of the number of elements stored under the key
RECURSIVE SumOfCounts(_, _)
SumOfCounts(kv_store, keys) ==
    IF keys = {} THEN 0
    ELSE LET k == CHOOSE x \in keys : TRUE IN
         Len(Decode(kv_store[k])) + SumOfCounts(kv_store, keys \ {k})

(***************************************************************************)
(* C1                                                                      *)
(***************************************************************************)
\* C1: size() returns the number of insert calls made on the queue less the
\* number of elements popped from it, so after inserts alone the number of
\* inserts, whatever priorities repeat; it is the sum of the per-priority
\* counts, not the number of keys.
C1_SizeCountsInserts ==
    \A q \in Queues :
        LET sized == size(queues[q]) IN
        /\ sized.status = "ok"
        /\ sized.result = inserts[q] - pops[q]
        /\ sized.result = SumOfCounts(queues[q], DOMAIN queues[q])

\* three inserts and no pop on one queue, two of them at one priority
C1_Witness ==
    \E q \in Queues :
        /\ inserts[q] = 3 /\ pops[q] = 0
        /\ Cardinality(DOMAIN queues[q]) = 2
        /\ size(queues[q]).result = 3

(***************************************************************************)
(* C2                                                                      *)
(***************************************************************************)
\* C2: in every reachable state is_empty() is true iff size() is 0 iff peek()
\* returns None iff pop() would return None.
C2_EmptinessAgrees ==
    \A q \in Queues :
        LET e == is_empty(queues[q]).result
            peeked == peek(queues[q], build)
            popped == pop(queues[q], build) IN
        /\ e <=> (size(queues[q]).result = 0)
        /\ e <=> (peeked.result = None)
        /\ e <=> (popped.result = None)
        /\ peeked.status = "ok"
        /\ popped.status = "ok"

\* a queue emptied again by pops, next to a queue that holds elements
C2_Witness ==
    \E q \in Queues, o \in Queues :
        /\ inserts[q] > 0 /\ pops[q] = inserts[q]
        /\ is_empty(queues[q]).result
        /\ last.op = "pop" /\ last.q = q /\ last.result # None
        /\ ~is_empty(queues[o]).result

(***************************************************************************)
(* C3                                                                      *)
(***************************************************************************)
\* C3: every pop() on a non-empty queue takes its element from the key of the
\* numerically greatest priority among the elements in the queue and returns
\* one of the elements inserted at that priority; a pop() that follows a
\* pop() on the same queue never returns a higher priority than the one
\* before it.
C3_PopReturnsMaxPriority ==
    [][\A q \in Queues :
          (last'.op = "pop" /\ last'.q = q /\ ~kv_is_empty(queues[q])) =>
              /\ last'.status = "ok"
              /\ AbsPresent(abs[q]) # {}
              /\ BeValue(last'.key) = AbsMax(abs[q])
              /\ \E i \in 1..Len(abs[q][AbsMax(abs[q])]) :
                     last'.result = Some(abs[q][AbsMax(abs[q])][i])
              /\ (last.op = "pop" /\ last.q = q /\ last.result # None)
                     => BeValue(last'.key) <= BeValue(last.key)]_vars

\* the second pop of a drain: 256 went first, 255 now, 3 is still queued
C3_Witness ==
    /\ last.op = "pop" /\ last.result # None
    /\ BeValue(last.key) = 255
    /\ pops[last.q] = 2
    /\ abs[last.q][3] # <<>>
    /\ abs[last.q][256] = <<>>

(***************************************************************************)
(* C4                                                                      *)
(***************************************************************************)
\* C4: pop() returns the most recently inserted of the elements still queued
\* at the greatest priority, also when inserts at other priorities and pops
\* come in between.
C4_PopLifoWithinPriority ==
    [][\A q \in Queues :
          (last'.op = "pop" /\ last'.q = q /\ ~kv_is_empty(queues[q])) =>
              /\ AbsPresent(abs[q]) # {}
              /\ last'.result =
                     Some(abs[q][AbsMax(abs[q])][Len(abs[q][AbsMax(abs[q])])])]_vars

\* <<6, 7>> was inserted at 256 after <<>>, with an insert at 3 in the queue:
\* the pop returned <<6, 7>> and left <<>>
C4_Witness ==
    /\ last.op = "pop" /\ last.result = Some(<<6, 7>>)
    /\ BeValue(last.key) = 256
    /\ abs[last.q][256] = << <<>> >>
    /\ abs[last.q][3] # <<>>

(***************************************************************************)
(* C5                                                                      *)
(***************************************************************************)
\* C5: in every non-empty state peek() returns the last element of the list
\* stored under the greatest key, which is the element pop() returns next.
C5_PeekIsNextPop ==
    \A q \in Queues :
        ~kv_is_empty(queues[q]) =>
            LET peeked == peek(queues[q], build)
                list == Decode(queues[q][MaxKey(queues[q])]) IN
            /\ peeked.status = "ok"
            /\ peeked.result = Some(list[Len(list)])
            /\ peeked.result = pop(queues[q], build).result

\* two different elements under the greatest key, a smaller key beside it
C5_Witness ==
    \E q \in Queues :
        /\ Cardinality(DOMAIN queues[q]) = 2
        /\ Decode(queues[q][MaxKey(queues[q])]) = << <<6, 7>>, <<>> >>
        /\ last.op = "peek" /\ last.q = q /\ last.result = Some(<<>>)

(***************************************************************************)
(* C6                                                                      *)
(***************************************************************************)
\* C6: peek(), size() and is_empty() leave every store as it was, and a call
\* repeated right after itself returns what it returned before.
C6_ObserversLeaveStore ==
    [][last'.op \in {"peek", "size", "is_empty"} =>
          /\ queues' = queues
          /\ last'.status = "ok"
          /\ (last.op = last'.op /\ last.q = last'.q) => last'.result = last.result]_vars

\* a peek() that returned an element of a queue holding two
C6_Witness ==
    /\ last.op = "peek" /\ last.result # None
    /\ size(queues[last.q]).result = 2

(***************************************************************************)
(* C7                                                                      *)
(***************************************************************************)
\* C7: an insert at a priority already present, also of a payload equal to
\* one stored there, appends one entry to that priority's list: the elements
\* stored before stay, the new one follows them, size() grows by 1.
C7_InsertNeverSkips ==
    [][\A q \in Queues :
          (/\ last'.op = "insert" /\ last'.q = q
           /\ Len(last'.element) <= u32_max_value
           /\ kv_contains_key(queues[q], to_be_bytes(last'.priority, PRIORITY_BYTES)))
          => LET key == to_be_bytes(last'.priority, PRIORITY_BYTES) IN
             /\ last'.status = "ok"
             /\ kv_contains_key(queues'[q], key)
             /\ Decode(queues'[q][key]) = Append(Decode(queues[q][key]), last'.element)
             /\ size(queues'[q]).result = size(queues[q]).result + 1]_vars

\* the payload <<6, 7>> inserted a second time at the same priority
C7_Witness ==
    /\ last.op = "insert" /\ last.element = <<6, 7>>
    /\ Decode(queues[last.q][to_be_bytes(last.priority, PRIORITY_BYTES)])
           = << <<6, 7>>, <<6, 7>> >>

(***************************************************************************)
(* C8                                                                      *)
(***************************************************************************)
\* C8: a call on one queue leaves the store of the other queue, and with it
\* its size(), is_empty() and peek(), as they were.
C8_QueuesIsolated ==
    [][\A q \in Queues : \A o \in Queues \ {q} :
          last'.q = q =>
              /\ queues'[o] = queues[o]
              /\ size(queues'[o]) = size(queues[o])
              /\ is_empty(queues'[o]) = is_empty(queues[o])
              /\ peek(queues'[o], build) = peek(queues[o], build)]_vars

\* both queues hold elements, different ones, and one was just popped
C8_Witness ==
    /\ last.op = "pop" /\ last.result # None
    /\ \A q \in Queues : ~kv_is_empty(queues[q])
    /\ queues[1] # queues[2]

(***************************************************************************)
(* C9                                                                      *)
(***************************************************************************)
\* C9: an insert of an element longer than u32::max_value() panics and
\* leaves the store as it was, the priority present or not.
C9_OverlongInsertAborts ==
    [][(last'.op = "insert" /\ Len(last'.element) > u32_max_value) =>
          /\ last'.status = "panic"
          /\ queues' = queues]_vars

\* the over-long insert panicked at a priority that holds two elements
C9_Witness ==
    /\ last.op = "insert" /\ last.status = "panic"
    /\ Len(last.element) > u32_max_value
    /\ kv_contains_key(queues[last.q], to_be_bytes(last.priority, PRIORITY_BYTES))
    /\ Len(Decode(queues[last.q][to_be_bytes(last.priority, PRIORITY_BYTES)])) = 2

(***************************************************************************)
(* C10                                                                     *)
(***************************************************************************)
\* C10: an insert of an element within the length limit succeeds in every
\* reachable state, and at a priority already present the count header it
\* writes is the old count plus 1, without wrap-around.
C10_InsertAlwaysSucceeds ==
    [][\A q \in Queues :
          (last'.op = "insert" /\ last'.q = q /\ Len(last'.element) <= u32_max_value)
          => LET key == to_be_bytes(last'.priority, PRIORITY_BYTES) IN
             /\ last'.status = "ok"
             /\ kv_contains_key(queues[q], key) =>
                    BeValue(SubSeq(queues'[q][key], 1, KEY_SIZE_BYTES))
                        = BeValue(SubSeq(queues[q][key], 1, KEY_SIZE_BYTES)) + 1]_vars

(***************************************************************************)
(* C11                                                                     *)
(***************************************************************************)
\* the number in the 4-byte count header of a stored value
Header(value) == BeValue(SubSeq(value, 1, KEY_SIZE_BYTES))

\* C11: no step leaves a key whose count header is 0: a pop() of the only
\* element under the greatest priority deletes the key, a pop() of one of
\* several keeps the key with the count one less.
C11_NoEmptyList ==
    [][/\ \A q \in Queues : \A k \in DOMAIN queues'[q] : Header(queues'[q][k]) >= 1
       /\ \A q \in Queues :
              (last'.op = "pop" /\ last'.q = q /\ ~kv_is_empty(queues[q])) =>
                  LET k == MaxKey(queues[q]) IN
                  IF Header(queues[q][k]) = 1
                  THEN ~kv_contains_key(queues'[q], k)
                  ELSE /\ kv_contains_key(queues'[q], k)
                       /\ Header(queues'[q][k]) = Header(queues[q][k]) - 1]_vars

\* a pop() took the only element at 256 and the key is gone, 3 is still there
C11_Witness ==
    /\ last.op = "pop" /\ last.result # None
    /\ BeValue(last.key) = 256
    /\ ~kv_contains_key(queues[last.q], last.key)
    /\ kv_contains_key(queues[last.q], to_be_bytes(3, PRIORITY_BYTES))

(***************************************************************************)
(* C12                                                                     *)
(***************************************************************************)
\* what is left of `bytes` after `count` (length, bytes) pairs
RECURSIVE AfterPairs(_, _)
AfterPairs(bytes, count) ==
    IF count = 0 THEN [ok |-> TRUE, rest |-> bytes]
    ELSE IF Len(bytes) < 4 \/ Len(bytes) < 4 + BeValue(SubSeq(bytes, 1, 4))
         THEN [ok |-> FALSE, rest |-> <<>>]
         ELSE AfterPairs(SubSeq(bytes, 5 + BeValue(SubSeq(bytes, 1, 4)), Len(bytes)),
                         count - 1)

\* a count header followed by exactly that many pairs and nothing else
WellFormed(value) ==
    /\ Len(value) >= 4
    /\ \A i \in 1..Len(value) : value[i] \in 0..255
    /\ LET after == AfterPairs(SubSeq(value, 5, Len(value)), Header(value)) IN
       after.ok /\ after.rest = <<>>

\* C12: in every reachable state every key is 8 bytes long and every value
\* is a count header followed by exactly that many (length, bytes) pairs,
\* each length the length of its payload, with no bytes left over.
C12_StoreWellFormed ==
    \A q \in Queues : \A k \in DOMAIN queues[q] :
        /\ Len(k) = PRIORITY_BYTES
        /\ \A i \in 1..Len(k) : k[i] \in 0..255
        /\ WellFormed(queues[q][k])
        /\ Header(queues[q][k]) >= 1

\* two keys, one of them holding an empty and a two-byte payload
C12_Witness ==
    \E q \in Queues :
        /\ Cardinality(DOMAIN queues[q]) = 2
        /\ \E k \in DOMAIN queues[q] : Decode(queues[q][k]) = << <<>>, <<6, 7>> >>

(***************************************************************************)
(* C13                                                                     *)
(***************************************************************************)
\* C13: the keys in the store are the big-endian bytes of the queued
\* priorities, p < r exactly when the key of p is lexicographically smaller
\* than the key of r, and the last entry in ascending key order is the key
\* of the numerically greatest priority present.
C13_KeyOrderIsPriorityOrder ==
    \A q \in Queues :
        LET present == AbsPresent(abs[q]) IN
        /\ DOMAIN queues[q] = {to_be_bytes(p, PRIORITY_BYTES) : p \in present}
        /\ \A p \in present : \A r \in present :
               (p < r) <=> LexLess(to_be_bytes(p, PRIORITY_BYTES),
                                   to_be_bytes(r, PRIORITY_BYTES))
        /\ present # {} =>
               kv_next_back(queues[q]) = to_be_bytes(AbsMax(abs[q]), PRIORITY_BYTES)

\* 255, 256 and 65535 are queued and a peek() has read the entry of 65535
C13_Witness ==
    /\ AbsPresent(abs[1]) = {255, 256, 65535}
    /\ kv_next_back(queues[1]) = <<0, 0, 0, 0, 0, 0, 255, 255>>
    /\ last.op = "peek" /\ last.result # None

(***************************************************************************)
(* C14                                                                     *)
(***************************************************************************)
\* a u32 field of the packed format: 4 bytes, most significant first
Field(n) ==
    <<(n \div 16777216) % 256, (n \div 65536) % 256, (n \div 256) % 256, n % 256>>

\* the (length, bytes) pairs of a sequence of elements, in order
RECURSIVE EncodePairs(_)
EncodePairs(elements) ==
    IF elements = <<>> THEN <<>>
    ELSE Field(Len(elements[1])) \o elements[1]
             \o EncodePairs(SubSeq(elements, 2, Len(elements)))

\* encode of the PackedElementList: the count, then the pairs
Encode(elements) == Field(Len(elements)) \o EncodePairs(elements)

\* C14: after every step the store is the encoding of the map from priority
\* to the sequence of elements inserted there and not yet popped: the keys
\* are those of the priorities that hold an element, each value is encode of
\* that priority's sequence; the value an insert writes under a key already
\* present is encode(decode(old value) + [new element]).
C14_StoreRefinesMap ==
    [][/\ \A q \in Queues :
              /\ DOMAIN queues'[q]
                     = {to_be_bytes(p, PRIORITY_BYTES) : p \in AbsPresent(abs'[q])}
              /\ \A p \in AbsPresent(abs'[q]) :
                     queues'[q][to_be_bytes(p, PRIORITY_BYTES)] = Encode(abs'[q][p])
       /\ \A q \in Queues :
              (/\ last'.op = "insert" /\ last'.q = q /\ last'.status = "ok"
               /\ kv_contains_key(queues[q], to_be_bytes(last'.priority, PRIORITY_BYTES)))
              => LET key == to_be_bytes(last'.priority, PRIORITY_BYTES) IN
                 queues'[q][key]
                     = Encode(Append(Decode(queues[q][key]), last'.element))]_vars

\* <<6, 7>> was appended to a list that held <<>> and <<6, 7>>
C14_Witness ==
    /\ last.op = "insert" /\ last.element = <<6, 7>>
    /\ abs[last.q][last.priority] = << <<>>, <<6, 7>>, <<6, 7>> >>
    /\ queues[last.q][to_be_bytes(last.priority, PRIORITY_BYTES)]
           = <<0, 0, 0, 3, 0, 0, 0, 0, 0, 0, 0, 2, 6, 7, 0, 0, 0, 2, 6, 7>>

(***************************************************************************)
(* C15                                                                     *)
(***************************************************************************)
\* C15: when pop() takes an element from a list of n >= 2 elements, the value
\* written back under the key is the encoding of the first n-1 elements of
\* the old list (same order, same payloads), its count header is n-1, and
\* the element returned is the n-th one.
C15_PopWritesBackPrefix ==
    [][\A q \in Queues :
           (last'.op = "pop" /\ last'.q = q /\ ~kv_is_empty(queues[q])) =>
               LET k == MaxKey(queues[q])
                   old == Decode(queues[q][k])
                   n == Len(old) IN
               (Header(queues[q][k]) = n /\ n >= 2) =>
                   /\ kv_contains_key(queues'[q], k)
                   /\ queues'[q][k] = Encode(SubSeq(old, 1, n - 1))
                   /\ Decode(queues'[q][k]) = SubSeq(old, 1, n - 1)
                   /\ Header(queues'[q][k]) = n - 1
                   /\ last'.result = Some(old[n])]_vars

\* <<>> was popped from a list of three, leaving <<>> and <<6, 7>> in order
C15_Witness ==
    /\ last.op = "pop" /\ last.result = Some(<<>>)
    /\ kv_contains_key(queues[last.q], last.key)
    /\ queues[last.q][last.key] = <<0, 0, 0, 2, 0, 0, 0, 0, 0, 0, 0, 2, 6, 7>>

(***************************************************************************)
(* C16                                                                     *)
(***************************************************************************)
\* the number of elements a store holds under a key, 0 for an absent key
CountAt(kv_store, k) ==
    IF kv_contains_key(kv_store, k) THEN Header(kv_store[k]) ELSE 0

\* the keys whose presence or value differs between two stores
Touched(before, after) ==
    {k \in DOMAIN before \cup DOMAIN after :
        \/ kv_contains_key(before, k) # kv_contains_key(after, k)
        \/ kv_contains_key(before, k) /\ before[k] # after[k]}

\* C16: every successful insert changes the element count of exactly one key,
\* the inserted priority's, by +1; every pop that returns an element changes
\* the count of exactly one key, the maximum key, by -1; every other key and
\* its value stay as they were, and no other step touches any key, so a key
\* only moves absent -> n -> n+1 or n-1 -> ... -> absent.
C16_KeyLifecycle ==
    [][\A q \in Queues :
           LET touched == Touched(queues[q], queues'[q]) IN
           IF last'.q = q /\ last'.op = "insert" /\ last'.status = "ok"
           THEN LET k == to_be_bytes(last'.priority, PRIORITY_BYTES) IN
                /\ touched = {k}
                /\ CountAt(queues'[q], k) = CountAt(queues[q], k) + 1
           ELSE IF last'.q = q /\ last'.op = "pop" /\ last'.result # None
           THEN LET k == MaxKey(queues[q]) IN
                /\ touched = {k}
                /\ CountAt(queues'[q], k) = CountAt(queues[q], k) - 1
           ELSE touched = {}]_vars

\* a second element went under key 3 while key 256 kept its one element
C16_Witness ==
    /\ last.op = "insert" /\ last.status = "ok" /\ last.priority = 3
    /\ CountAt(queues[last.q], to_be_bytes(3, PRIORITY_BYTES)) = 2
    /\ CountAt(queues[last.q], to_be_bytes(256, PRIORITY_BYTES)) = 1

(***************************************************************************)
(* C17                                                                     *)
(***************************************************************************)
\* the scan of peek() and pop() kept going over all n elements: the elements
\* next_element yields, in order, and the slice left after the n-th
RECURSIVE scan_elements(_, _, _)
scan_elements(elements_slice, n, elements) ==
    LET ne == next_element(elements_slice) IN
    IF ~ne.ok THEN [ok |-> FALSE, elements |-> <<>>, rest |-> <<>>]
    ELSE IF n = 1
         THEN [ok |-> TRUE, elements |-> Append(elements, ne.element),
               rest |-> ne.next_slice]
         ELSE scan_elements(ne.next_slice, n - 1, Append(elements, ne.element))

\* reading a stored value the way peek() and pop() do: the count, then the scan
scan(value) ==
    LET s == split_at(value, KEY_SIZE_BYTES) IN
    IF ~s.ok \/ Len(s.left) # KEY_SIZE_BYTES
    THEN [ok |-> FALSE, elements |-> <<>>, rest |-> <<>>]
    ELSE IF as_u32_be(s.left) = 0
         THEN [ok |-> FALSE, elements |-> <<>>, rest |-> <<>>]
         ELSE scan_elements(s.right, as_u32_be(s.left), <<>>)

\* the non-empty sequences of at most n payloads
RECURSIVE SeqsUpTo(_)
SeqsUpTo(n) ==
    IF n = 0 THEN {}
    ELSE LET shorter == SeqsUpTo(n - 1) IN
         shorter \cup {<<e>> : e \in Payloads}
                 \cup {Append(s, e) : s \in shorter, e \in Payloads}

\* the number of elements the abstract map holds under the priorities ps
RECURSIVE AbsCount(_, _)
AbsCount(a, ps) ==
    IF ps = {} THEN 0
    ELSE LET p == CHOOSE x \in ps : TRUE IN Len(a[p]) + AbsCount(a, ps \ {p})

\* C17: the packed format round-trips: reading back the encoding of any
\* non-empty sequence of elements gives the same elements in the same order
\* with nothing left over, also when an element is empty, and so does reading
\* back what the inserts wrote; an empty element is counted by size() and
\* comes back from peek() and pop() as Some(<<>>), which is not None.
C17_RoundTrip ==
    /\ \A elements \in SeqsUpTo(MaxInserts) :
           LET d == scan(Encode(elements)) IN
           d.ok /\ d.elements = elements /\ d.rest = <<>>
    /\ \A q \in Queues :
           /\ \A p \in AbsPresent(abs[q]) :
                  LET d == scan(queues[q][to_be_bytes(p, PRIORITY_BYTES)]) IN
                  d.ok /\ d.elements = abs[q][p] /\ d.rest = <<>>
           /\ size(queues[q]).result = AbsCount(abs[q], AbsPresent(abs[q]))
           /\ AbsPresent(abs[q]) # {} =>
                  LET top == abs[q][AbsMax(abs[q])] IN
                  top[Len(top)] = <<>> =>
                      /\ peek(queues[q], build).result = Some(<<>>)
                      /\ pop(queues[q], build).result = Some(<<>>)
                      /\ Some(<<>>) # None

\* a queue holding one empty element and nothing else was peeked
C17_Witness ==
    /\ last.op = "peek" /\ last.result = Some(<<>>)
    /\ abs[last.q][3] = << <<>> >>
    /\ AbsPresent(abs[last.q]) = {3}
    /\ size(queues[last.q]).result = 1
    /\ scan(queues[last.q][to_be_bytes(3, PRIORITY_BYTES)]).elements = << <<>> >>

(***************************************************************************)
(* C18                                                                     *)
(***************************************************************************)
\* k calls of pop() in a row: the store they leave, and whether each of them
\* completed and returned an element
RECURSIVE Drain(_, _, _)
Drain(kv_store, k, bld) ==
    IF k = 0 THEN [kv_store |-> kv_store, all_some |-> TRUE]
    ELSE LET out == pop(kv_store, bld) IN
         IF out.status # "ok" \/ out.result = None
         THEN [kv_store |-> out.store, all_some |-> FALSE]
         ELSE Drain(out.store, k - 1, bld)

\* C18: from every reachable state with size() = n, n calls of pop() with no
\* insert between them each return an element; after them the store has no
\* key and is_empty() is true, and a further pop() returns None and leaves
\* the store empty.
C18_DrainTerminates ==
    \A q \in Queues :
        LET n == size(queues[q]).result
            d == Drain(queues[q], n, build)
            further == pop(d.kv_store, build) IN
        /\ d.all_some
        /\ kv_is_empty(d.kv_store)
        /\ is_empty(d.kv_store).result
        /\ further.status = "ok" /\ further.result = None
        /\ kv_is_empty(further.store)

\* a queue of three elements under two keys was drained by three pops, and
\* the pop after them returned None
C18_Witness ==
    /\ last.op = "pop" /\ last.result = None
    /\ inserts[last.q] = 3 /\ pops[last.q] = 3
    /\ kv_is_empty(queues[last.q])

(***************************************************************************)
(* C19                                                                     *)
(***************************************************************************)
\* the scan loop of peek() and pop() with its passes counted: whether it
\* returned, and after how many calls of next_element
RECURSIVE loop_passes(_, _, _, _)
loop_passes(elements_slice, n, bld, passes) ==
    LET ne == next_element(elements_slice) IN
    IF ~ne.ok THEN [ok |-> FALSE, passes |-> passes + 1]
    ELSE LET n1 == u32_sub(n, 1, bld) IN
         IF ~n1.ok THEN [ok |-> FALSE, passes |-> passes + 1]
         ELSE IF n1.val = 0 THEN [ok |-> TRUE, passes |-> passes + 1]
         ELSE loop_passes(ne.next_slice, n1.val, bld, passes + 1)

\* C19: in every reachable state the scan of peek() and pop() over the
\* maximum key's value is safe and finite: the count is at least 1 on entry,
\* so `size - 1` and `n -= 1` stay at or above 0 (a debug build, which panics
\* on underflow, completes), the loop returns after exactly count passes, and
\* next_element never splits past the end of the remaining slice.
C19_ScanSafe ==
    \A q \in Queues :
        ~kv_is_empty(queues[q]) =>
            LET value == queues[q][kv_next_back(queues[q])]
                s == split_at(value, KEY_SIZE_BYTES)
                count == as_u32_be(s.left) IN
            /\ s.ok
            /\ count >= 1
            /\ u32_sub(count, 1, "debug").ok
            /\ LET l == loop_passes(s.right, count, "debug", 0) IN
               l.ok /\ l.passes = count
            /\ scan(value).ok
            /\ \A bld \in Builds :
                   /\ peek(queues[q], bld).status = "ok"
                   /\ pop(queues[q], bld).status = "ok"

\* a peek scanned a list of three elements under the maximum key in a debug build
C19_Witness ==
    /\ last.op = "peek" /\ last.status = "ok" /\ build = "debug"
    /\ ~kv_is_empty(queues[last.q])
    /\ LET s == split_at(queues[last.q][kv_next_back(queues[last.q])], KEY_SIZE_BYTES) IN
       /\ as_u32_be(s.left) = 3
       /\ loop_passes(s.right, 3, "debug", 0).passes = 3

(***************************************************************************)
(* C20                                                                     *)
(***************************************************************************)
\* every payload an insert of any of the specifications passes
AllPayloads == Payloads \cup PayloadsW \cup PayloadsK

\* how many times the payload e is stored under the keys `keys`
RECURSIVE Stored(_, _, _)
Stored(kv_store, keys, e) ==
    IF keys = {} THEN 0
    ELSE LET k == CHOOSE x \in keys : TRUE
             elements == scan(kv_store[k]).elements IN
         Cardinality({i \in 1..Len(elements) : elements[i] = e})
             + Stored(kv_store, keys \ {k}, e)

\* C20: elements are conserved. A successful insert adds one occurrence of
\* the inserted payload to the stored multiset and nothing else, a pop that
\* returns an element takes one occurrence of the returned payload out of it
\* and nothing else, and no other step changes it; every stored value reads
\* back as inserted payloads only. So the payloads returned so far together
\* with the payloads stored are the payloads inserted, each with its bytes.
C20_ElementsConserved ==
    [][\A q \in Queues :
           LET inserted == last'.q = q /\ last'.op = "insert" /\ last'.status = "ok"
               popped == last'.q = q /\ last'.op = "pop" /\ last'.result # None IN
           IF inserted \/ popped
           THEN /\ \A k \in DOMAIN queues'[q] :
                       LET d == scan(queues'[q][k]) IN
                       /\ d.ok /\ d.rest = <<>>
                       /\ \A i \in 1..Len(d.elements) : d.elements[i] \in AllPayloads
                /\ popped => \E e \in AllPayloads : last'.result = Some(e)
                /\ \A e \in AllPayloads :
                       LET was == Stored(queues[q], DOMAIN queues[q], e)
                           is == Stored(queues'[q], DOMAIN queues'[q], e) IN
                       IF inserted
                       THEN is = was + (IF last'.element = e THEN 1 ELSE 0)
                       ELSE is = was - (IF last'.result = Some(e) THEN 1 ELSE 0)
           ELSE queues'[q] = queues[q]]_vars

\* of <<6, 7>>, <<6, 7>> and <<>> inserted, one <<6, 7>> was returned by a
\* pop and the other two payloads are still stored
C20_Witness ==
    /\ last.op = "pop" /\ last.result = Some(<<6, 7>>)
    /\ inserts[last.q] = 3 /\ pops[last.q] = 1
    /\ Stored(queues[last.q], DOMAIN queues[last.q], <<6, 7>>) = 1
    /\ Stored(queues[last.q], DOMAIN queues[last.q], <<>>) = 1

====
